---- MODULE Spec2Model ----
(***************************************************************************)
(* Model of server.js: an Express process that validates its configuration *)
(* at load, listens, and relays contact-form submissions posted to         *)
(* /api/send-email as two transactional emails through the Brevo API.      *)
(*                                                                         *)
(* JavaScript strings are sequences of one-character strings.  A JSON      *)
(* value is a record [t, s]: t is its JavaScript type and s is String(v),  *)
(* the text the value coerces to (what RegExp.prototype.test sees).        *)
(***************************************************************************)
EXTENDS Integers, Sequences, FiniteSets

VARIABLES
  env,       \* process.env: the settings read at load and NODE_ENV
  status,    \* "loading", "exited", "configured", "listening" or "crashed"
  exitCode,  \* the code given to process.exit, -1 while the process runs
  stderr,    \* the names console.error reported as missing
  reqs,      \* the requests received so far, each with its calls and responses
  sub        \* the submission a single client is about to post

vars == <<env, status, exitCode, stderr, reqs, sub>>

(***************************************************************************)
(* Bounds                                                                  *)
(***************************************************************************)
\* Requests the process receives in one run.
MaxReq == 2
\* Length of the text drawn for the requirements field when rendering.
MaxReqLen == 4
\* Length of the text drawn for every other field when rendering.
MaxFieldLen == 2
\* Length of the text drawn for the email field when validating.
MaxEmailLen == 5

(***************************************************************************)
(* JSON / JavaScript values                                                *)
(***************************************************************************)
Undefined == [t |-> "undefined", s |-> <<>>]
Str(s) == [t |-> "string", s |-> s]
Num(s) == [t |-> "number", s |-> s]
Arr(s) == [t |-> "array", s |-> s]

\* ToBoolean(v), as used by `!v` and `v || d`.
Truthy(v) ==
  CASE v.t = "undefined" -> FALSE
    [] v.t = "string" -> v.s # <<>>
    [] v.t = "number" -> v.s # <<"0">>
    [] OTHER -> TRUE

\* v || d
OrElse(v, d) == IF Truthy(v) THEN v ELSE d

\* All strings over alphabet A of length at most n.
StringsUpTo(A, n) == UNION {[1..k -> A] : k \in 0..n}

(***************************************************************************)
(* escapeHtml (server.js 150-160)                                          *)
(***************************************************************************)
\* The value a throwing expression yields in place of a string.
TypeError == [t |-> "TypeError", s |-> <<>>]

\* The class with the apostrophe forgotten.
escapeClass_NoApostrophe == {"&", "<", ">", "\""}

\* The character class of the regex /[&<>"']/g.
escapeClass == {"&", "<", ">", "\"", "'"}

\* The replacement table `map`.
escapeMap(c) ==
  CASE c = "&" -> <<"&", "a", "m", "p", ";">>
    [] c = "<" -> <<"&", "l", "t", ";">>
    [] c = ">" -> <<"&", "g", "t", ";">>
    [] c = "\"" -> <<"&", "q", "u", "o", "t", ";">>
    [] c = "'" -> <<"&", "#", "0", "3", "9", ";">>

RECURSIVE replaceEscape(_)
\* text.replace(/[&<>"']/g, m => map[m]): one left-to-right pass over the
\* input; a replacement is never rescanned.
replaceEscape(s) ==
  IF s = <<>> THEN <<>>
  ELSE (IF Head(s) \in escapeClass THEN escapeMap(Head(s)) ELSE <<Head(s)>>)
       \o replaceEscape(Tail(s))

RECURSIVE replaceNewlines(_)
\* s.replace(/\n/g, '<br>')
replaceNewlines(s) ==
  IF s = <<>> THEN <<>>
  ELSE (IF Head(s) = "\n" THEN <<"<", "b", "r", ">">> ELSE <<Head(s)>>)
       \o replaceNewlines(Tail(s))

\* escapeHtml(text): '' for a falsy argument; a TypeError for a truthy value
\* that is not a string (it has no replace method).
escapeHtml(text) ==
  IF ~Truthy(text) THEN Str(<<>>)
  ELSE IF text.t # "string" THEN TypeError
  ELSE Str(replaceEscape(text.s))

(***************************************************************************)
(* emailRegex (server.js 72)                                               *)
(***************************************************************************)
Whitespace == {" ", "\n", "\t"}

\* [^@], the class without its \s.
NotSpaceAt_AllowsSpace(c) == c # "@"

\* [^\s@]
NotSpaceAt(c) == c \notin Whitespace /\ c # "@"

\* One step of the automaton of /^[^\s@]+@[^\s@]+\.[^\s@]+$/ on the set S of
\* positions in the pattern: 0 start, 1 in the local part, 2 after '@',
\* 3 in the domain, 4 after the '.', 5 in the last part (accepting).
emailRegexStep(S, c) ==
  {q \in 1..5 :
     \/ q = 1 /\ (0 \in S \/ 1 \in S) /\ NotSpaceAt(c)
     \/ q = 2 /\ 1 \in S /\ c = "@"
     \/ q = 3 /\ (2 \in S \/ 3 \in S) /\ NotSpaceAt(c)
     \/ q = 4 /\ 3 \in S /\ c = "."
     \/ q = 5 /\ (4 \in S \/ 5 \in S) /\ NotSpaceAt(c)}

RECURSIVE emailRegexRun(_, _)
emailRegexRun(S, s) ==
  IF s = <<>> THEN S ELSE emailRegexRun(emailRegexStep(S, Head(s)), Tail(s))

\* emailRegex.test(v): the argument is coerced with String(v).
emailRegexTest(v) == 5 \in emailRegexRun({0}, v.s)

(***************************************************************************)
(* Configuration (server.js 29-49)                                         *)
(***************************************************************************)
BREVO_API_KEY == env.BREVO_API_KEY
SENDER_EMAIL == env.BREVO_SENDER_EMAIL
DefaultSenderName == Str(<<"Autoflowmation AI">>)
SENDER_NAME == OrElse(env.BREVO_SENDER_NAME, DefaultSenderName)
ADMIN_EMAIL == env.BREVO_ADMIN_EMAIL
NODE_ENV == env.NODE_ENV

\* The list without the check of the admin address.
missingConfig_NoAdminCheck ==
  (IF ~Truthy(BREVO_API_KEY) THEN <<"BREVO_API_KEY">> ELSE <<>>)
  \o (IF ~Truthy(SENDER_EMAIL) THEN <<"BREVO_SENDER_EMAIL">> ELSE <<>>)

\* The list `missing` that validateConfig builds.
missingConfig ==
  (IF ~Truthy(BREVO_API_KEY) THEN <<"BREVO_API_KEY">> ELSE <<>>)
  \o (IF ~Truthy(SENDER_EMAIL) THEN <<"BREVO_SENDER_EMAIL">> ELSE <<>>)
  \o (IF ~Truthy(ADMIN_EMAIL) THEN <<"BREVO_ADMIN_EMAIL">> ELSE <<>>)

(***************************************************************************)
(* The two HTML documents (server.js 80-101)                               *)
(***************************************************************************)
Thrown(v) == v.t = "TypeError"

NA == Str(<<"N", "/", "A">>)

\* The two steps in the other order: escapeHtml(requirements.replace(...)).
renderRequirements_BreaksFirst(v) ==
  IF ~Truthy(v) THEN Str(<<>>)
  ELSE IF v.t # "string" THEN TypeError
  ELSE escapeHtml(Str(replaceNewlines(v.s)))

\* escapeHtml(requirements).replace(/\n/g, '<br>')
renderRequirements(v) ==
  LET e == escapeHtml(v)
  IN IF Thrown(e) THEN e ELSE Str(replaceNewlines(e.s))

\* A template literal: static chunks alternating with interpolated strings.
\* The document is kept as the sequence of its pieces (its text is their
\* concatenation); evaluating it throws if an interpolation throws.
Template(chunks, vals) ==
  IF \E i \in DOMAIN vals : Thrown(vals[i]) THEN TypeError
  ELSE Str([i \in 1..(2 * Len(vals) + 1) |->
              IF i % 2 = 1 THEN <<chunks[(i + 1) \div 2]>> ELSE vals[i \div 2].s])

adminChunks ==
  <<"\n      <h2>New Form Submission from Autoflowmation AI</h2>\n      <p><strong>Name:</strong> ",
    "</p>\n      <p><strong>Email:</strong> ",
    "</p>\n      <p><strong>Phone:</strong> ",
    "</p>\n      <p><strong>Company:</strong> ",
    "</p>\n      <p><strong>Requirements:</strong></p>\n      <p>",
    "</p>\n      <p><strong>Budget:</strong> ",
    "</p>\n      <p><strong>Timeline:</strong> ",
    "</p>\n    ">>

adminEmailContent(body) ==
  Template(adminChunks,
           <<escapeHtml(body.name),
             escapeHtml(body.email),
             escapeHtml(OrElse(body.phone, NA)),
             escapeHtml(OrElse(body.company, NA)),
             renderRequirements(body.requirements),
             escapeHtml(OrElse(body.budget, NA)),
             escapeHtml(OrElse(body.timeline, NA))>>)

userChunks ==
  <<"\n      <h2>Thank You for Your Submission!</h2>\n      <p>Hi ",
    ",</p>\n      <p>We've received your requirements and will review them shortly. Our team will get back to you within 24 hours with next steps.</p>\n      <p>In the meantime, if you have any questions, feel free to reach out.</p>\n      <br>\n      <p>Best regards,<br>Autoflowmation AI Team</p>\n    ">>

userEmailContent(body) == Template(userChunks, <<escapeHtml(body.name)>>)

(***************************************************************************)
(* The handler of POST /api/send-email (server.js 57-145)                  *)
(***************************************************************************)
\* res.status(code).json(json) followed by return: the response is sent and
\* the handler is over.  json lists the keys JSON.stringify keeps.
Respond(req, code, json) ==
  [req EXCEPT !.responses = Append(@, [code |-> code, json |-> json]),
              !.pc = "done"]

\* A handler without the catch: the error leaves it.
catchBlock_Rethrow(req, message) == [req EXCEPT !.pc = "escaped"]

\* A catch block that echoes error.message whatever NODE_ENV is.
catchBlock_AlwaysDetail(req, message) ==
  Respond(req, 500,
          <<<<"success", "false">>,
            <<"message", "Failed to send email. Please try again later.">>,
            <<"error", message>>>>)

\* The catch block: 500 with the generic message; error.message is a key of
\* the body only when NODE_ENV is 'development' (undefined is dropped).
catchBlock(req, message) ==
  Respond(req, 500,
          <<<<"success", "false">>,
            <<"message", "Failed to send email. Please try again later.">>>>
          \o (IF NODE_ENV = Str(<<"development">>)
              THEN <<<<"error", message>>>> ELSE <<>>))

\* sendBrevoEmail up to its await: axios.post is issued with emailData and
\* the api-key header.
sendBrevoEmail(req, emailData) ==
  [req EXCEPT !.calls = Append(@, [emailData |-> emailData,
                                   apiKey |-> BREVO_API_KEY,
                                   state |-> "pending"])]

adminEmailData(body) ==
  [to |-> <<[email |-> ADMIN_EMAIL, name |-> Str(<<"Admin">>)]>>,
   sender |-> [email |-> SENDER_EMAIL, name |-> SENDER_NAME],
   subject |-> <<"New Form Submission - ">> \o body.name.s,
   htmlContent |-> adminEmailContent(body).s]

userEmailData(body) ==
  [to |-> <<[email |-> body.email, name |-> body.name]>>,
   sender |-> [email |-> SENDER_EMAIL, name |-> SENDER_NAME],
   subject |-> <<"We Received Your Requirements - Autoflowmation AI">>,
   htmlContent |-> userEmailContent(body).s]

\* error.message of what the handler can throw.
TypeErrorMessage == "text.replace is not a function"
axiosMessage(outcome) ==
  IF outcome = "rejected" THEN "Request failed with status code 400"
  ELSE "Network Error"

\* What a provider call can end in: a 2xx answer, a non-2xx answer, no answer.
Outcomes == {"ok", "rejected", "network"}

\* A request as it enters the function that handles it.
NewRequest(handledBy, body) ==
  [handledBy |-> handledBy, body |-> body, pc |-> "running",
   calls |-> <<>>, responses |-> <<>>]

\* The handler issuing both sends at once, before awaiting either.
postSendEmail_Parallel(body) ==
  LET req == NewRequest("send-email", body)
  IN IF ~Truthy(body.name) \/ ~Truthy(body.email) \/ ~Truthy(body.requirements)
     THEN Respond(req, 400,
                  <<<<"success", "false">>,
                    <<"message", "Missing required fields: name, email, requirements">>>>)
     ELSE IF ~emailRegexTest(body.email)
     THEN Respond(req, 400,
                  <<<<"success", "false">>, <<"message", "Invalid email format">>>>)
     ELSE IF Thrown(adminEmailContent(body)) \/ Thrown(userEmailContent(body))
     THEN catchBlock(req, TypeErrorMessage)
     ELSE [sendBrevoEmail(sendBrevoEmail(req, adminEmailData(body)), userEmailData(body))
             EXCEPT !.pc = "awaitAdmin"]

\* The handler from its entry to its first await (or to its response).  Both
\* documents are built before the first send.
postSendEmail(body) ==
  LET req == NewRequest("send-email", body)
  IN IF ~Truthy(body.name) \/ ~Truthy(body.email) \/ ~Truthy(body.requirements)
     THEN Respond(req, 400,
                  <<<<"success", "false">>,
                    <<"message", "Missing required fields: name, email, requirements">>>>)
     ELSE IF ~emailRegexTest(body.email)
     THEN Respond(req, 400,
                  <<<<"success", "false">>, <<"message", "Invalid email format">>>>)
     ELSE IF Thrown(adminEmailContent(body)) \/ Thrown(userEmailContent(body))
     THEN catchBlock(req, TypeErrorMessage)
     ELSE [sendBrevoEmail(req, adminEmailData(body)) EXCEPT !.pc = "awaitAdmin"]

\* The second send attempted whatever the first ended in.
afterAdminSend_Independent(req, outcome) ==
  LET r == [req EXCEPT !.calls[Len(req.calls)].state = outcome]
  IN [sendBrevoEmail(r, userEmailData(r.body)) EXCEPT !.pc = "awaitUser"]

\* The handler resumed when the admin call settles: a rejection is thrown
\* into the catch block, a success goes on to the second call (whose
\* document was built from the same body before the first send).
afterAdminSend(req, outcome) ==
  LET r == [req EXCEPT !.calls[Len(req.calls)].state = outcome]
  IN IF outcome = "ok"
     THEN [sendBrevoEmail(r, userEmailData(r.body)) EXCEPT !.pc = "awaitUser"]
     ELSE catchBlock(r, axiosMessage(outcome))

\* A failed user send tried once more.
afterUserSend_Retry(req, outcome) ==
  LET r == [req EXCEPT !.calls[Len(req.calls)].state = outcome]
  IN IF outcome = "ok"
     THEN Respond(r, 200,
                  <<<<"success", "true">>, <<"message", "Emails sent successfully!">>>>)
     ELSE IF Len(r.calls) < 3
     THEN sendBrevoEmail(r, userEmailData(r.body))
     ELSE catchBlock(r, axiosMessage(outcome))

\* The handler resumed when the user call settles.
afterUserSend(req, outcome) ==
  LET r == [req EXCEPT !.calls[Len(req.calls)].state = outcome]
  IN IF outcome = "ok"
     THEN Respond(r, 200,
                  <<<<"success", "true">>, <<"message", "Emails sent successfully!">>>>)
     ELSE catchBlock(r, axiosMessage(outcome))

(***************************************************************************)
(* What clients submit                                                     *)
(***************************************************************************)
EmptyBody ==
  [name |-> Undefined, email |-> Undefined, phone |-> Undefined,
   company |-> Undefined, requirements |-> Undefined, budget |-> Undefined,
   timeline |-> Undefined]

\* {name: "J", email: "j@e.c", requirements: "n"}
JaneBody ==
  [EmptyBody EXCEPT !.name = Str(<<"J">>),
                    !.email = Str(<<"j", "@", "e", ".", "c">>),
                    !.requirements = Str(<<"n">>)]

\* Every field given, with markup characters and a line break.
RichBody ==
  [name |-> Str(<<"<", "J", ">">>), email |-> Str(<<"'", "@", "e", ".", "c">>),
   phone |-> Str(<<"1">>), company |-> Str(<<"A", "&", "B">>),
   requirements |-> Str(<<"a", "\n", "<", "b", "r", ">">>),
   budget |-> Str(<<"\"">>), timeline |-> Str(<<"3">>)]

\* Values of name and requirements that are absent, empty or not strings.
OddTexts == {Undefined, Str(<<>>), Num(<<"0">>), Num(<<"5">>)}

\* Values of email: absent, empty, malformed, or not a string.
OddEmails ==
  {Undefined, Str(<<>>), Num(<<"5">>), Arr(<<"j", "@", "e", ".", "c">>),
   Str(<<"j", "e", ".", "c">>), Str(<<"j", "@", "e">>),
   Str(<<"@", "e", ".", "c">>), Str(<<"j", "@", ".", "c">>),
   Str(<<"j", "@", "e", ".">>), Str(<<"j", "@", "@", "e", ".", "c">>),
   Str(<<"j", " ", "@", "e", ".", "c">>), Str(<<"j", "@", "e", ".", "c", "\n">>)}

\* The bodies posted to /api/send-email in the process model: one for each
\* way through the handler.
Bodies ==
  {JaneBody, EmptyBody,
   [JaneBody EXCEPT !.requirements = Str(<<>>)],
   [JaneBody EXCEPT !.email = Str(<<"j", "@", "e">>)],
   [JaneBody EXCEPT !.name = Num(<<"5">>)],
   [JaneBody EXCEPT !.email = Arr(<<"j", "@", "e", ".", "c">>)],
   [JaneBody EXCEPT !.phone = Num(<<"5">>)]}

\* More bodies with absent, empty, malformed and non-string fields.
OddBodies ==
  {RichBody}
  \cup {[JaneBody EXCEPT !.name = v] : v \in OddTexts}
  \cup {[JaneBody EXCEPT !.requirements = v] : v \in OddTexts}
  \cup {[JaneBody EXCEPT !.email = v] : v \in OddEmails}
  \cup {[JaneBody EXCEPT !.phone = Num(<<"0">>)],
        [JaneBody EXCEPT !.name = Undefined, !.email = Str(<<"j", "@", "e">>)]}

(***************************************************************************)
(* The process (server.js 6-9, 49-57, 162-183)                             *)
(***************************************************************************)
EnvValues(v) == {Undefined, Str(<<>>), Str(<<v>>)}

Envs ==
  [BREVO_API_KEY : EnvValues("key"),
   BREVO_SENDER_EMAIL : EnvValues("sender@x.y"),
   BREVO_SENDER_NAME : {Undefined, Str(<<"Sender">>)},
   BREVO_ADMIN_EMAIL : {Undefined, Str(<<>>), Str(<<"o", "@", "p", ".", "q">>)},
   NODE_ENV : {Undefined, Str(<<"development">>), Str(<<"production">>)}]

NoSub == EmptyBody

Init ==
  /\ env \in Envs
  /\ status = "loading"
  /\ exitCode = -1
  /\ stderr = <<>>
  /\ reqs = <<>>
  /\ sub = NoSub

\* validateConfig(), called while the module loads.
validateConfig ==
  /\ status = "loading"
  /\ IF Len(missingConfig) > 0
     THEN /\ stderr' = missingConfig
          /\ exitCode' = 1
          /\ status' = "exited"
     ELSE /\ status' = "configured"
          /\ UNCHANGED <<stderr, exitCode>>
  /\ UNCHANGED <<env, reqs, sub>>

\* app.listen(PORT, ...), the last statement of the module.
listen ==
  /\ status = "configured"
  /\ status' = "listening"
  /\ UNCHANGED <<env, exitCode, stderr, reqs, sub>>

\* A request is routed to its handler only by a listening process; an
\* exception that leaves a handler uncaught brings the process down.
Receive(req) ==
  /\ status = "listening"
  /\ reqs' = Append(reqs, req)
  /\ status' = IF req.pc = "escaped" THEN "crashed" ELSE status
  /\ UNCHANGED <<env, exitCode, stderr, sub>>

Resume(i, req) ==
  /\ status = "listening"
  /\ reqs' = [reqs EXCEPT ![i] = req]
  /\ status' = IF req.pc = "escaped" THEN "crashed" ELSE status
  /\ UNCHANGED <<env, exitCode, stderr, sub>>

\* app.get('/api/health')
getHealth ==
  /\ Len(reqs) < MaxReq
  /\ Receive(Respond(NewRequest("health", EmptyBody), 200,
                     <<<<"status", "ok">>, <<"message", "Server is running">>>>))

\* The 404 handler, for a request no route matches.
notFound ==
  /\ Len(reqs) < MaxReq
  /\ Receive(Respond(NewRequest("not-found", EmptyBody), 404,
                     <<<<"success", "false">>, <<"message", "Endpoint not found">>>>))

\* The error-handling middleware: express.json() hands it the error of a
\* body that is not JSON, and the handler of the route is never entered.
errorMiddleware ==
  /\ Len(reqs) < MaxReq
  /\ Receive(Respond(NewRequest("error-middleware", EmptyBody), 500,
                     <<<<"success", "false">>, <<"message", "Internal server error">>>>))

\* app.post('/api/send-email'), to its first await.
sendEmail ==
  /\ Len(reqs) < MaxReq
  /\ \E body \in Bodies : Receive(postSendEmail(body))

\* The admin call of request i settles and the handler resumes.
adminSendSettles ==
  \E i \in DOMAIN reqs, outcome \in Outcomes :
    /\ reqs[i].pc = "awaitAdmin"
    /\ Resume(i, afterAdminSend(reqs[i], outcome))

\* The user call of request i settles and the handler resumes.
userSendSettles ==
  \E i \in DOMAIN reqs, outcome \in Outcomes :
    /\ reqs[i].pc = "awaitUser"
    /\ Resume(i, afterUserSend(reqs[i], outcome))

Next ==
  \/ validateConfig
  \/ listen
  \/ getHealth
  \/ notFound
  \/ errorMiddleware
  \/ sendEmail
  \/ adminSendSettles
  \/ userSendSettles

Spec == Init /\ [][Next]_vars

FairSpec == Spec /\ WF_vars(adminSendSettles) /\ WF_vars(userSendSettles)

(***************************************************************************)
(* One client posting one submission drawn from a wide set of texts: the   *)
(* same handler, exercised on every short string rather than on the        *)
(* representative bodies above.                                            *)
(***************************************************************************)
MarkupAlphabet == {"b", "r", "&", "<", ">", "\"", "'", "\n"}
EmailAlphabet == {"a", "@", ".", " "}

\* Fields interpolated with escapeHtml alone.
PlainFields == {"name", "phone", "company", "budget", "timeline"}

\* The submissions drawn: the bodies of the process model, and JaneBody with
\* one field replaced by each short text over the markup characters (the
\* email keeps a domain so that it passes validation), or with name,
\* requirements and email replaced together to exercise validation.
DrawnSub(body) ==
  \/ body \in Bodies \cup OddBodies
  \/ \E f \in PlainFields, s \in StringsUpTo(MarkupAlphabet, MaxFieldLen) :
       body = [JaneBody EXCEPT ![f] = Str(s)]
  \/ \E s \in StringsUpTo(MarkupAlphabet, MaxFieldLen) :
       body = [JaneBody EXCEPT !.email = Str(s \o <<"@", "e", ".", "c">>)]
  \/ \E s \in StringsUpTo(MarkupAlphabet, MaxReqLen) :
       body = [JaneBody EXCEPT !.requirements = Str(s)]
  \/ \E n \in {Undefined, Str(<<"J">>)}, r \in {Str(<<>>), Str(<<"n">>)},
        s \in StringsUpTo(EmailAlphabet, MaxEmailLen) :
       body = [JaneBody EXCEPT !.name = n, !.requirements = r, !.email = Str(s)]

InitSubmission ==
  /\ env = [BREVO_API_KEY |-> Str(<<"key">>),
            BREVO_SENDER_EMAIL |-> Str(<<"sender@x.y">>),
            BREVO_SENDER_NAME |-> Undefined,
            BREVO_ADMIN_EMAIL |-> Str(<<"o", "@", "p", ".", "q">>),
            NODE_ENV |-> Undefined]
  /\ status = "listening"
  /\ exitCode = -1
  /\ stderr = <<>>
  /\ reqs = <<>>
  /\ DrawnSub(sub)

\* app.post('/api/send-email') on the drawn submission, to its first await.
sendDrawn ==
  /\ reqs = <<>>
  /\ Receive(postSendEmail(sub))

NextSubmission ==
  \/ sendDrawn
  \/ adminSendSettles
  \/ userSendSettles

SpecSubmission == InitSubmission /\ [][NextSubmission]_vars

(***************************************************************************)
(* Vocabulary of the properties                                            *)
(***************************************************************************)
\* The requests that entered the handler of POST /api/send-email.
Posts == {i \in DOMAIN reqs : reqs[i].handledBy = "send-email"}

Range(s) == {s[i] : i \in DOMAIN s}

StartsWith(s, p) == Len(s) >= Len(p) /\ SubSeq(s, 1, Len(p)) = p

Drop(s, n) == SubSeq(s, n + 1, Len(s))

CountOf(c, s) == Cardinality({i \in DOMAIN s : s[i] = c})

\* A field that is present and non-empty.
NonEmpty(v) == v.t # "undefined" /\ v.s # <<>>

\* local@domain.tld: no whitespace, exactly one '@' with text before it, and
\* after it a '.' with text on each side.
MatchesShape(s) ==
  /\ \A i \in DOMAIN s : s[i] \notin Whitespace
  /\ CountOf("@", s) = 1
  /\ \E a \in DOMAIN s :
       /\ s[a] = "@"
       /\ a > 1
       /\ \E d \in (a + 2)..(Len(s) - 1) : s[d] = "."

FailsPresence(body) ==
  ~Truthy(body.name) \/ ~Truthy(body.email) \/ ~Truthy(body.requirements)

Json400(message) ==
  [code |-> 400, json |-> <<<<"success", "false">>, <<"message", message>>>>]

Failed(call) == call.state \in {"rejected", "network"}

HasKey(response, key) == \E k \in DOMAIN response.json : response.json[k][1] = key

GenericFailure ==
  [code |-> 500,
   json |-> <<<<"success", "false">>,
              <<"message", "Failed to send email. Please try again later.">>>>]

\* The five entity forms.
Entities ==
  {<<"&", "a", "m", "p", ";">>, <<"&", "l", "t", ";">>, <<"&", "g", "t", ";">>,
   <<"&", "q", "u", "o", "t", ";">>, <<"&", "#", "0", "3", "9", ";">>}

LineBreak == <<"<", "b", "r", ">">>

RECURSIVE EntitySafe(_, _)
\* No raw & < > " ' in s: every '&' opens one of the five entities and, where
\* line breaks are allowed, every '<' opens a <br>.
EntitySafe(s, breaks) ==
  IF s = <<>> THEN TRUE
  ELSE IF Head(s) = "&"
  THEN \E e \in Entities : StartsWith(s, e) /\ EntitySafe(Drop(s, Len(e)), breaks)
  ELSE IF Head(s) = "<"
  THEN breaks /\ StartsWith(s, LineBreak) /\ EntitySafe(Drop(s, 4), breaks)
  ELSE Head(s) \notin {">", "\"", "'"} /\ EntitySafe(Tail(s), breaks)

EntityChar(e) ==
  CASE e = <<"&", "a", "m", "p", ";">> -> "&"
    [] e = <<"&", "l", "t", ";">> -> "<"
    [] e = <<"&", "g", "t", ";">> -> ">"
    [] e = <<"&", "q", "u", "o", "t", ";">> -> "\""
    [] e = <<"&", "#", "0", "3", "9", ";">> -> "'"

RECURSIVE Decode(_)
\* What a browser shows for s: an entity is its character, <br> is a line
\* break; anything else that is markup decodes to the mark "?raw".
Decode(s) ==
  IF s = <<>> THEN <<>>
  ELSE IF \E e \in Entities : StartsWith(s, e)
  THEN LET e == CHOOSE x \in Entities : StartsWith(s, x)
       IN <<EntityChar(e)>> \o Decode(Drop(s, Len(e)))
  ELSE IF StartsWith(s, LineBreak) THEN <<"\n">> \o Decode(Drop(s, 4))
  ELSE IF Head(s) \in {"&", "<", ">", "\"", "'", "\n"} THEN <<"?raw">>
  ELSE <<Head(s)>> \o Decode(Tail(s))

\* The fields of the admin document in the order they are interpolated, and
\* the text each shows.
AdminFields ==
  <<"name", "email", "phone", "company", "requirements", "budget", "timeline">>

Shown(body, f) ==
  IF f \in {"name", "email", "requirements"} \/ NonEmpty(body[f])
  THEN body[f].s ELSE <<"N", "/", "A">>

(***************************************************************************)
(* C1.  No provider call is issued unless name, email and requirements are *)
(* present and non-empty and the email has the shape local@domain.tld; a   *)
(* submission failing the presence check is answered 400 "Missing required *)
(* fields: name, email, requirements", one failing only the pattern check  *)
(* 400 "Invalid email format", both with no provider call.                 *)
(***************************************************************************)
C1_ValidatedBeforeProvider ==
  \A i \in Posts :
    LET r == reqs[i]
        b == r.body
    IN /\ r.calls # <<>> =>
            /\ NonEmpty(b.name) /\ NonEmpty(b.email) /\ NonEmpty(b.requirements)
            /\ MatchesShape(b.email.s)
       /\ FailsPresence(b) =>
            /\ r.responses =
                 <<Json400("Missing required fields: name, email, requirements")>>
            /\ r.calls = <<>>
       /\ (~FailsPresence(b) /\ ~MatchesShape(b.email.s)) =>
            /\ r.responses = <<Json400("Invalid email format")>>
            /\ r.calls = <<>>

C1_Witness ==
  \E i \in Posts :
    /\ reqs[i].responses = <<Json400("Invalid email format")>>
    /\ reqs[i].calls = <<>>
    /\ CountOf("@", reqs[i].body.email.s) = 1
    /\ CountOf(".", reqs[i].body.email.s) = 1

(***************************************************************************)
(* C2.  When both provider calls of a valid submission succeed there are   *)
(* exactly two, the first to the admin address and the second to the       *)
(* submitter, the second issued only once the first has settled, and the   *)
(* 200 "Emails sent successfully!" response is sent only after both.       *)
(***************************************************************************)
C2_TwoCallsThenSuccess ==
  \A i \in Posts :
    LET r == reqs[i]
        ok == [code |-> 200,
               json |-> <<<<"success", "true">>,
                          <<"message", "Emails sent successfully!">>>>]
    IN /\ Len(r.calls) >= 2 => r.calls[1].state # "pending"
       /\ (\E k \in DOMAIN r.calls : r.calls[k].state = "pending") =>
            r.responses = <<>>
       /\ (\E k \in DOMAIN r.responses : r.responses[k].code = 200) <=>
            (Len(r.calls) >= 2 /\ r.calls[1].state = "ok" /\ r.calls[2].state = "ok")
       /\ (\E k \in DOMAIN r.responses : r.responses[k].code = 200) =>
            /\ r.responses = <<ok>>
            /\ Len(r.calls) = 2
            /\ r.calls[1].emailData.to = <<[email |-> ADMIN_EMAIL, name |-> Str(<<"Admin">>)]>>
            /\ r.calls[2].emailData.to = <<[email |-> r.body.email, name |-> r.body.name]>>

C2_Witness ==
  \E i \in Posts :
    /\ Len(reqs[i].responses) = 1
    /\ reqs[i].responses[1].code = 200
    /\ Len(reqs[i].calls) = 2

(***************************************************************************)
(* C3.  When the admin call succeeds and the user call fails the response  *)
(* is 500 with success false; the admin call stays a success and nothing   *)
(* is retried: the request never makes more than two provider calls.       *)
(***************************************************************************)
C3_UserFailureIs500NoRetry ==
  \A i \in Posts :
    LET r == reqs[i]
    IN /\ Len(r.calls) <= 2
       /\ (Len(r.calls) >= 2 /\ Failed(r.calls[2])) =>
            /\ r.calls[1].state = "ok"
            /\ r.pc = "done"
            /\ Len(r.responses) = 1
            /\ r.responses[1].code = 500
            /\ r.responses[1].json[1] = <<"success", "false">>

C3_Witness ==
  \E i \in Posts :
    /\ Len(reqs[i].calls) = 2
    /\ reqs[i].calls[1].state = "ok"
    /\ Failed(reqs[i].calls[2])
    /\ reqs[i].pc = "done"

C5_GenericFailureOutsideDevelopment ==
  /\ \A i \in Posts : \A k \in DOMAIN reqs[i].responses :
       LET resp == reqs[i].responses[k]
       IN resp.code = 500 =>
            /\ HasKey(resp, "error") => NODE_ENV = Str(<<"development">>)
            /\ NODE_ENV # Str(<<"development">>) => resp = GenericFailure
  /\ NODE_ENV # Str(<<"development">>) =>
       \A i, j \in Posts :
         (/\ reqs[i].responses # <<>> /\ reqs[i].responses[1].code = 500
          /\ reqs[j].responses # <<>> /\ reqs[j].responses[1].code = 500) =>
           reqs[i].responses = reqs[j].responses

C5_Witness ==
  /\ NODE_ENV = Str(<<"production">>)
  /\ \E i, j \in Posts :
       /\ reqs[i].calls # <<>> /\ reqs[i].calls[Len(reqs[i].calls)].state = "rejected"
       /\ reqs[j].calls # <<>> /\ reqs[j].calls[Len(reqs[j].calls)].state = "network"
       /\ reqs[i].responses # <<>> /\ reqs[j].responses # <<>>

(***************************************************************************)
(* C6.  In the HTML body of the admin email and of the user confirmation,  *)
(* every interpolated field is free of raw & < > " ': each such character  *)
(* of the input appears as its entity and nothing else of the input is     *)
(* markup (the only '<' are the line breaks made from the newlines of      *)
(* requirements).                                                          *)
(***************************************************************************)
C6_NoRawMarkupInEitherDocument ==
  \A i \in Posts :
    LET r == reqs[i]
        b == r.body
    IN /\ r.calls # <<>> =>
            \A n \in 1..7 :
              LET piece == r.calls[1].emailData.htmlContent[2 * n]
                  text == Shown(b, AdminFields[n])
              IN /\ EntitySafe(piece, AdminFields[n] = "requirements")
                 /\ CountOf("&", piece) = Cardinality({k \in DOMAIN text : text[k] \in {"&", "<", ">", "\"", "'"}})
                 /\ CountOf("<", piece) = (IF AdminFields[n] = "requirements" THEN CountOf("\n", text) ELSE 0)
       /\ Len(r.calls) >= 2 =>
            LET piece == r.calls[2].emailData.htmlContent[2]
            IN /\ EntitySafe(piece, FALSE)
               /\ CountOf("&", piece) = Cardinality({k \in DOMAIN b.name.s : b.name.s[k] \in {"&", "<", ">", "\"", "'"}})

C6_Witness ==
  \E i \in Posts :
    /\ Len(reqs[i].calls) = 2
    /\ {"<", "'"} \subseteq Range(reqs[i].body.name.s)

(***************************************************************************)
(* C7.  The requirements paragraph of the admin document is the input with *)
(* each character escaped exactly once and each newline then made a <br>:  *)
(* read back, it is the input again (a <br> made from a newline is not     *)
(* escaped, an '&' made by escaping is not escaped again), and a <br>      *)
(* typed by the user is rendered &lt;br&gt;.                               *)
(***************************************************************************)
C7_RequirementsEscapedOnceThenBroken ==
  \A i \in Posts :
    LET r == reqs[i]
        text == r.body.requirements.s
    IN r.calls # <<>> =>
         LET piece == r.calls[1].emailData.htmlContent[10]
         IN /\ Decode(piece) = text
            /\ Len(piece) = Len(text) + 3 * CountOf("\n", text)
                            + 4 * CountOf("&", text) + 3 * CountOf("<", text)
                            + 3 * CountOf(">", text) + 5 * CountOf("\"", text)
                            + 5 * CountOf("'", text)
            /\ text = LineBreak =>
                 piece = <<"&", "l", "t", ";", "b", "r", "&", "g", "t", ";">>

C7_Witness ==
  \E i \in Posts :
    /\ reqs[i].calls # <<>>
    /\ {"\n", "&", "<"} \subseteq Range(reqs[i].body.requirements.s)

RequiredNames == <<"BREVO_API_KEY", "BREVO_SENDER_EMAIL", "BREVO_ADMIN_EMAIL">>

(***************************************************************************)
(* C8.  Requests are handled only by a process whose API key, sender       *)
(* address and admin address are all set: if one is absent the process     *)
(* reports every missing name and exits with a non-zero code before it     *)
(* listens.  The sender display name is not required.                      *)
(***************************************************************************)
C8_FailFastOnMissingConfig ==
  LET absent == {n \in Range(RequiredNames) : ~NonEmpty(env[n])}
  IN /\ (status \in {"configured", "listening"} \/ reqs # <<>>) => absent = {}
     /\ (absent # {} /\ status # "loading") =>
          /\ status = "exited"
          /\ exitCode > 0
          /\ Range(stderr) = absent
          /\ Len(stderr) = Cardinality(absent)
          /\ reqs = <<>>
     /\ (absent = {} /\ status # "loading") =>
          /\ status \in {"configured", "listening"}
          /\ exitCode = -1

C8_Witness ==
  /\ status = "exited"
  /\ exitCode = 1
  /\ Len(stderr) = 2
  /\ NonEmpty(env.BREVO_SENDER_NAME)

\* The requests to POST /api/send-email, with those whose body did not parse.
AllPosts == Posts \cup {i \in DOMAIN reqs : reqs[i].handledBy = "error-middleware"}

AnsweredOnce(i) ==
  /\ i \in AllPosts
  /\ reqs[i].pc = "done"
  /\ Len(reqs[i].responses) = 1

\* No request to the endpoint has escaped its handler or been answered twice.
C9_NothingEscapes ==
  /\ reqs # <<>> => status = "listening"
  /\ \A i \in AllPosts :
       /\ reqs[i].pc \in {"awaitAdmin", "awaitUser", "done"}
       /\ Len(reqs[i].responses) = (IF reqs[i].pc = "done" THEN 1 ELSE 0)
       /\ \A k \in DOMAIN reqs[i].responses :
            /\ reqs[i].responses[k].code \in {200, 400, 500}
            /\ HasKey(reqs[i].responses[k], "success")
            /\ HasKey(reqs[i].responses[k], "message")

(***************************************************************************)
(* C9.  Every request to the endpoint, whatever its body and whatever each *)
(* provider call ends in, is answered exactly once with a JSON body and    *)
(* status 200, 400 or 500, provided each provider call settles; nothing    *)
(* escapes the handler and the process keeps listening.                    *)
(***************************************************************************)
C9_EveryRequestAnsweredOnce ==
  /\ []C9_NothingEscapes
  /\ \A i \in 1..MaxReq : [](i \in AllPosts => <>[]AnsweredOnce(i))

C9_Witness ==
  \E i, j \in Posts :
    /\ i < j
    /\ AnsweredOnce(i) /\ reqs[i].responses[1].code = 500
    /\ reqs[i].calls # <<>> /\ reqs[i].calls[Len(reqs[i].calls)].state = "network"
    /\ AnsweredOnce(j)
    /\ status = "listening"

(***************************************************************************)
(* C10 as stated: a request that passes the presence check and the email   *)
(* pattern check always reaches the admin send, so the 500 "Failed to send *)
(* email" response is only ever the outcome of a provider call that was    *)
(* issued and failed.                                                      *)
(***************************************************************************)
C10_FailureOnlyAfterProviderFailure ==
  \A i \in Posts :
    LET r == reqs[i]
    IN /\ (~FailsPresence(r.body) /\ emailRegexTest(r.body.email)) => r.calls # <<>>
       /\ (\E k \in DOMAIN r.responses : r.responses[k].code = 500) =>
            \E c \in DOMAIN r.calls : Failed(r.calls[c])

====
